---- MODULE Spec2Model ----
(***************************************************************************)
(* Model of the jito-rust-rpc client SDK.                                  *)
(*                                                                         *)
(*   src/src/lib.rs   GrpcClient (std::sync::Mutex around a tonic client,  *)
(*                    retrying send_bundle) and JitoJsonRpcSDK (JSON-RPC   *)
(*                    and gRPC request dispatch, bundle validation).       *)
(*   src/src/grpc.rs  GrpcClient over the searcher service                 *)
(*                    (tokio::sync::Mutex around the generated client).    *)
(*                                                                         *)
(* A caller (task) runs one SDK call at a time.  An action is the code a   *)
(* task executes between two suspension points (.await); the answer of the *)
(* remote peer is an input of the action that resumes the task.            *)
(***************************************************************************)
EXTENDS Integers, Sequences, FiniteSets, TLC

(***************************************************************************)
(* Bounds of the model.                                                    *)
(***************************************************************************)
MaxTxCount == 6   \* longest transaction list offered to the validator
NumTasks == 2     \* concurrent callers in the shared-client specification

(***************************************************************************)
(* Program constants.                                                      *)
(***************************************************************************)
MAX_RETRIES == 5
INITIAL_DELAY_MS == 100
MaxBundleLen == 5

E_EMPTY == "Bundle must contain at least one transaction"
E_TOOMANY == "Bundle can contain at most 5 transactions"
E_FIRST == "First element must be an array of transactions"
E_FORMAT == "Invalid bundle format: expected [serialized_txs, options]"
E_NOGRPC == "gRPC not enabled. Call enable_grpc() first"
E_PARSE == "Failed to parse response"
E_SENDFAIL == "Failed to send gRPC request after 5 retries"
E_NOTREADY == "Service not ready after 5 retries"
E_UNEXPECTED == "Unexpected: reached end of retry loop"
E_REQUEST == "Request error"
E_STATUS == "status"
E_INVALIDURI == "invalid uri"
E_TRANSPORT == "transport error"
E_CONNECT == "Failed to connect"
E_TIPS == "Failed to get tip accounts"
E_BUNDLE == "Failed to send bundle"
P_INVALIDURL == "invalid url"
P_TLSCONFIG == "tls config error"
P_RELOCK == "mutex locked twice by one thread"

BUNDLES_PATH == "/api/v1/bundles"
SEND_REQUEST_PATH == "/jito.JitoService/SendRequest"

(***************************************************************************)
(* Option<T> and Result<T>.                                                *)
(***************************************************************************)
None == [some |-> FALSE]
Some(x) == [some |-> TRUE, v |-> x]

NoResult == [kind |-> "none"]
Ok(x) == [kind |-> "ok", v |-> x]
Err(m) == [kind |-> "err", msg |-> m]
Panic(m) == [kind |-> "panic", msg |-> m]

(***************************************************************************)
(* serde_json::Value.  An object is a sequence of <<key, value>> members.  *)
(***************************************************************************)
JNull == [t |-> "null"]
JStr(s) == [t |-> "str", s |-> s]
JNum(n) == [t |-> "num", n |-> n]
JArr(a) == [t |-> "arr", a |-> a]
JObj(o) == [t |-> "obj", o |-> o]

\* Value::as_array
as_array(v) == IF v.t = "arr" THEN Some(v.a) ELSE None

\* Value::to_string / serde_json::to_string: the compact JSON text.
RECURSIVE to_string(_)
RECURSIVE JoinValues(_)
RECURSIVE JoinMembers(_)
to_string(v) ==
    CASE v.t = "null" -> "null"
      [] v.t = "str" -> "\"" \o v.s \o "\""
      [] v.t = "num" -> ToString(v.n)
      [] v.t = "arr" -> "[" \o JoinValues(v.a) \o "]"
      [] v.t = "obj" -> "{" \o JoinMembers(v.o) \o "}"

JoinValues(a) ==
    IF a = <<>> THEN ""
    ELSE IF Len(a) = 1 THEN to_string(a[1])
    ELSE to_string(a[1]) \o "," \o JoinValues(Tail(a))

JoinMembers(o) ==
    IF o = <<>> THEN ""
    ELSE IF Len(o) = 1 THEN "\"" \o o[1][1] \o "\":" \o to_string(o[1][2])
    ELSE "\"" \o o[1][1] \o "\":" \o to_string(o[1][2]) \o "," \o JoinMembers(Tail(o))

(***************************************************************************)
(* Bundle validation, as written at both call sites.                       *)
(***************************************************************************)
\* the bound taken one too low: serialized_txs.len() >= 5
TooManyTxs_inclusive(n) == n >= MaxBundleLen

\* serialized_txs.len() > 5
TooManyTxs(n) == n > MaxBundleLen

\* outer_array.len() >= 1
OuterLenOk(n) == n >= 1

\* JitoJsonRpcSDK::send_bundle: the match on params; Ok carries the whole
\* outer array.
ValidateSendBundle(params) ==
    IF params.some /\ params.v.t = "arr" /\ OuterLenOk(Len(params.v.a))
    THEN LET outer_array == params.v.a
             serialized_txs == as_array(outer_array[1])
         IN IF serialized_txs.some
            THEN IF Len(serialized_txs.v) = 0 THEN Err(E_EMPTY)
                 ELSE IF TooManyTxs(Len(serialized_txs.v)) THEN Err(E_TOOMANY)
                 ELSE Ok(outer_array)
            ELSE Err(E_FIRST)
    ELSE Err(E_FORMAT)

\* JitoJsonRpcSDK::send_bundle_with_grpc: the match on params; Ok carries
\* outer_array[0].clone().
ValidateSendBundleGrpc(params) ==
    IF params.some /\ params.v.t = "arr" /\ OuterLenOk(Len(params.v.a))
    THEN LET outer_array == params.v.a
             serialized_txs == as_array(outer_array[1])
         IN IF serialized_txs.some
            THEN IF Len(serialized_txs.v) = 0 THEN Err(E_EMPTY)
                 ELSE IF TooManyTxs(Len(serialized_txs.v)) THEN Err(E_TOOMANY)
                 ELSE Ok(outer_array[1])
            ELSE Err(E_FIRST)
    ELSE Err(E_FORMAT)

(***************************************************************************)
(* State.                                                                  *)
(*   uuid         JitoJsonRpcSDK.uuid, the attribution id                  *)
(*   grpc_client  JitoJsonRpcSDK.grpc_client (Option<GrpcClient>)          *)
(*   holder       owner of GrpcClient.client (std::sync::Mutex), 0 = free  *)
(*   searcher     result of grpc.rs GrpcClient::connect                    *)
(*   s_holder     owner of grpc.rs GrpcClient.client (tokio Mutex)         *)
(*   task         per caller: position and locals of the call in progress, *)
(*                what it handed to the transport, and its result          *)
(*   executor     how the callers are polled: all by one thread            *)
(*                ("current_thread") or each by a thread of its own        *)
(***************************************************************************)
VARIABLES uuid, grpc_client, holder, searcher, s_holder, task, executor

vars == <<uuid, grpc_client, holder, searcher, s_holder, task, executor>>

Callers == DOMAIN task

\* The guard of std::sync::Mutex is held across .await, so the future of
\* GrpcClient::send_bundle is not Send: a caller stays on the thread that
\* polls it, the one thread of a current-thread executor (join!, LocalSet)
\* or a thread of its own (one block_on per thread).
Executors == {"current_thread", "thread_per_caller"}
ThreadOf(t) == IF executor = "current_thread" THEN 1 ELSE t

\* A caller is polled only when its thread is not parked inside
\* std::sync::Mutex::lock on behalf of another caller.
Runnable(t) ==
    \A u \in Callers \ {t} : ThreadOf(u) = ThreadOf(t) => task[u].pc # "blocked"

\* &mut self methods (send_request_grpc and its callers, enable_grpc) need
\* the SDK exclusively; &self methods need no &mut self call in progress.
ExclBorrowOk(t) == \A u \in Callers \ {t} : task[u].pc \notin {"http_send", "http_body", "dispatch", "blocked", "ready", "unary", "sleep"}
SharedBorrowOk(t) == \A u \in Callers \ {t} : task[u].pc # "dispatch"

IdleTask ==
    [pc |-> "idle", call |-> [op |-> "none"], result |-> NoResult,
     sent |-> None, payload |-> None, attempts |-> 0, fails |-> 0, locks |-> 0,
     retry |-> 0, current_delay |-> 0, waits |-> <<>>, elapsed |-> 0,
     reply |-> None]

\* A call begins: fresh locals, nothing sent yet.
Begin(c) == [IdleTask EXCEPT !.call = c]

Finish(rec, r) == [rec EXCEPT !.pc = "done", !.result = r]

CanStart(t) == task[t].pc = "idle" /\ Runnable(t)

(***************************************************************************)
(* JSON-RPC path.                                                          *)
(***************************************************************************)
\* if let Some(uuid) = &self.uuid { format!("/bundles?uuid={}", uuid) }
SelfEndpoint(self_uuid) ==
    IF self_uuid.some THEN "/bundles?uuid=" \o self_uuid.v ELSE "/bundles"

\* send_bundle: the endpoint is built from the per-call argument.
SendBundleEndpoint(arg_uuid) ==
    IF arg_uuid.some THEN "/bundles" \o "?uuid=" \o arg_uuid.v ELSE "/bundles"

\* params.unwrap_or(json!([]))
ParamsOrEmpty(params) == IF params.some THEN params.v ELSE JArr(<<>>)

\* send_request: the envelope and the POST that carries it.
HttpRequest(endpoint, method, params) ==
    LET data == JObj(<< <<"id", JNum(1)>>, <<"jsonrpc", JStr("2.0")>>,
                        <<"method", JStr(method)>>,
                        <<"params", ParamsOrEmpty(params)>> >>)
    IN [proto |-> "http", endpoint |-> endpoint, method |-> method,
        params |-> ParamsOrEmpty(params), body |-> to_string(data)]

\* json!([bundle_uuids])
StatusParams(bundle_uuids) ==
    JArr(<< JArr([i \in 1..Len(bundle_uuids) |-> JStr(bundle_uuids[i])]) >>)

\* What the caller sees of a reqwest error: get_tip_accounts returns it as
\* is, the others wrap it.
HttpError(op) == IF op = "get_tip_accounts" THEN Err(E_TRANSPORT) ELSE Err(E_REQUEST)

GetTipAccounts(t) ==
    /\ CanStart(t) /\ SharedBorrowOk(t)
    /\ task' = [task EXCEPT ![t] =
          [Begin([op |-> "get_tip_accounts"]) EXCEPT
              !.pc = "http_send",
              !.sent = Some(HttpRequest(SelfEndpoint(uuid), "getTipAccounts", None))]]
    /\ UNCHANGED <<uuid, grpc_client, holder, searcher, s_holder, executor>>

GetBundleStatuses(t, bundle_uuids) ==
    /\ CanStart(t) /\ SharedBorrowOk(t)
    /\ task' = [task EXCEPT ![t] =
          [Begin([op |-> "get_bundle_statuses", ids |-> bundle_uuids]) EXCEPT
              !.pc = "http_send",
              !.sent = Some(HttpRequest(SelfEndpoint(uuid), "getBundleStatuses",
                                        Some(StatusParams(bundle_uuids))))]]
    /\ UNCHANGED <<uuid, grpc_client, holder, searcher, s_holder, executor>>

SendBundle(t, params, arg_uuid) ==
    /\ CanStart(t) /\ SharedBorrowOk(t)
    /\ LET c == [op |-> "send_bundle", params |-> params, uuid |-> arg_uuid]
           transactions == ValidateSendBundle(params)
       IN task' = [task EXCEPT ![t] =
             IF transactions.kind = "err"
             THEN Finish(Begin(c), transactions)
             ELSE [Begin(c) EXCEPT
                     !.pc = "http_send",
                     !.sent = Some(HttpRequest(SendBundleEndpoint(arg_uuid), "sendBundle",
                                               Some(JArr(transactions.v))))]]
    /\ UNCHANGED <<uuid, grpc_client, holder, searcher, s_holder, executor>>

\* .send().await?
HttpSent(t, delivered) ==
    /\ task[t].pc = "http_send" /\ Runnable(t)
    /\ task' = [task EXCEPT ![t] =
          IF delivered THEN [@ EXCEPT !.pc = "http_body"]
          ELSE Finish(@, HttpError(@.call.op))]
    /\ UNCHANGED <<uuid, grpc_client, holder, searcher, s_holder, executor>>

\* response.json::<Value>().await?
HttpBody(t, body) ==
    /\ task[t].pc = "http_body" /\ Runnable(t)
    /\ task' = [task EXCEPT ![t] =
          IF body.some THEN Finish(@, Ok(body.v))
          ELSE Finish(@, HttpError(@.call.op))]
    /\ UNCHANGED <<uuid, grpc_client, holder, searcher, s_holder, executor>>

(***************************************************************************)
(* gRPC path of the SDK: generic dispatch (send_request_grpc).             *)
(***************************************************************************)
GrpcRequest(path, body, value) ==
    [proto |-> "grpc", path |-> path, body |-> body, value |-> value]

\* json!({"endpoint": .., "method": .., "params": ..}).to_string()
DispatchValue(endpoint, method, params) ==
    JObj(<< <<"endpoint", JStr(endpoint)>>, <<"method", JStr(method)>>,
            <<"params", ParamsOrEmpty(params)>> >>)

\* serde_json::from_str(&data).map_err(..): the replies of the peer are
\* texts; ParsedReply gives the value of the well-formed ones.
ParsedReply(data) ==
    CASE data = "{\"result\":\"ok\"}" -> Some(JObj(<< <<"result", JStr("ok")>> >>))
      [] data = "[]" -> Some(JArr(<<>>))
      [] OTHER -> None

from_str(data) ==
    IF ParsedReply(data).some THEN Ok(ParsedReply(data).v) ELSE Err(E_PARSE)

\* Answers of the peer to a unary call: an RPC status error or a text.
ReplyTexts == {"{\"result\":\"ok\"}", "[]", "<html>"}
Replies == {None} \cup {Some(d) : d \in ReplyTexts}

\* the request built and handed over before grpc_client is looked at
SendRequestGrpc_unchecked(c, endpoint, method, params) ==
    LET value == DispatchValue(endpoint, method, params)
        req == Some(GrpcRequest(SEND_REQUEST_PATH, to_string(value), value))
    IN IF ~grpc_client.some
       THEN Finish([Begin(c) EXCEPT !.sent = req], Err(E_NOGRPC))
       ELSE [Begin(c) EXCEPT !.pc = "dispatch", !.sent = req]

\* send_request_grpc up to grpc.unary(..).await
SendRequestGrpc(c, endpoint, method, params) ==
    IF ~grpc_client.some THEN Finish(Begin(c), Err(E_NOGRPC))
    ELSE LET value == DispatchValue(endpoint, method, params)
         IN [Begin(c) EXCEPT
               !.pc = "dispatch",
               !.sent = Some(GrpcRequest(SEND_REQUEST_PATH, to_string(value), value))]

GetTipAccountsWithGrpc(t) ==
    /\ CanStart(t) /\ ExclBorrowOk(t)
    /\ task' = [task EXCEPT ![t] =
          SendRequestGrpc([op |-> "get_tip_accounts_with_grpc"],
                          SelfEndpoint(uuid), "getTipAccounts", None)]
    /\ UNCHANGED <<uuid, grpc_client, holder, searcher, s_holder, executor>>

GetBundleStatusesWithGrpc(t, bundle_uuids) ==
    /\ CanStart(t) /\ ExclBorrowOk(t)
    /\ task' = [task EXCEPT ![t] =
          SendRequestGrpc([op |-> "get_bundle_statuses_with_grpc", ids |-> bundle_uuids],
                          SelfEndpoint(uuid), "getBundleStatuses",
                          Some(StatusParams(bundle_uuids)))]
    /\ UNCHANGED <<uuid, grpc_client, holder, searcher, s_holder, executor>>

\* grpc.unary(..).await? and the parse of the reply
DispatchDone(t, reply) ==
    /\ task[t].pc = "dispatch" /\ Runnable(t)
    /\ task' = [task EXCEPT ![t] =
          IF reply.some THEN Finish(@, from_str(reply.v))
          ELSE Finish(@, Err(E_STATUS))]
    /\ UNCHANGED <<uuid, grpc_client, holder, searcher, s_holder, executor>>

(***************************************************************************)
(* GrpcClient::send_bundle of lib.rs: the retrying unary call.             *)
(***************************************************************************)
\* the final attempt looked for one past the loop: retry == MAX_RETRIES
IsFinalAttempt_late(retry) == retry = MAX_RETRIES

\* retry == MAX_RETRIES - 1
IsFinalAttempt(retry) == retry = MAX_RETRIES - 1

\* a linear backoff: current_delay += INITIAL_DELAY_MS
NextDelay_linear(current_delay) == current_delay + INITIAL_DELAY_MS

\* current_delay *= 2  (u64; the values stay below 2^12)
NextDelay(current_delay) == current_delay * 2

\* a lock that excludes nobody
LockFree_always(h) == TRUE

\* self.client.lock(): the mutex is free
LockFree(h) == h = 0

\* What self.client.lock().unwrap() does for caller t.  A free mutex is
\* acquired and the ready-check starts.  A mutex held by a caller of another
\* thread parks the thread of t until it is released.  A mutex held by a
\* caller of the thread of t is a second lock by the same thread, which std
\* leaves unspecified: lock() never returns, it parks the thread for good
\* ("deadlock") or panics ("panic").
RelockOutcomes == {"deadlock", "panic"}

LockAttempt(t, rec, relock) ==
    IF LockFree(holder)
    THEN [rec EXCEPT !.pc = "ready", !.attempts = @ + 1, !.locks = @ + 1]
    ELSE IF ThreadOf(holder) = ThreadOf(t) /\ relock = "panic"
         THEN Finish(rec, Panic(P_RELOCK))
         ELSE [rec EXCEPT !.pc = "blocked"]

HolderAfter(t, rec) == IF rec.pc = "ready" THEN t ELSE holder

\* send_bundle_with_grpc, and GrpcClient::send_bundle up to the first
\* client.ready().await
SendBundleWithGrpc(t, params, arg_uuid, relock) ==
    /\ CanStart(t) /\ SharedBorrowOk(t)
    /\ LET c == [op |-> "send_bundle_with_grpc", params |-> params, uuid |-> arg_uuid]
           transactions == ValidateSendBundleGrpc(params)
           rec == IF ~grpc_client.some THEN Finish(Begin(c), Err(E_NOGRPC))
                  ELSE IF transactions.kind = "err" THEN Finish(Begin(c), transactions)
                  ELSE LockAttempt(t,
                          [Begin(c) EXCEPT
                             !.payload = Some(GrpcRequest(BUNDLES_PATH,
                                                          to_string(transactions.v),
                                                          transactions.v)),
                             !.retry = 0,
                             !.current_delay = INITIAL_DELAY_MS],
                          relock)
       IN /\ task' = [task EXCEPT ![t] = rec]
          /\ holder' = HolderAfter(t, rec)
    /\ UNCHANGED <<uuid, grpc_client, searcher, s_holder, executor>>

\* lock() returns to a parked thread once the mutex is free
Acquire(t) ==
    /\ task[t].pc = "blocked" /\ LockFree(holder)
    /\ task' = [task EXCEPT ![t] =
          [@ EXCEPT !.pc = "ready", !.attempts = @ + 1, !.locks = @ + 1]]
    /\ holder' = t
    /\ UNCHANGED <<uuid, grpc_client, searcher, s_holder, executor>>

\* A failed attempt: the terminal error on the final attempt, otherwise
\* drop(client) and the backoff sleep.  The guard is released either way.
AttemptFailed(rec, msg) ==
    IF IsFinalAttempt(rec.retry)
    THEN Finish([rec EXCEPT !.fails = @ + 1], Err(msg))
    ELSE [rec EXCEPT !.fails = @ + 1, !.pc = "sleep"]

\* client.ready().await
ReadyDone(t, is_ready) ==
    /\ task[t].pc = "ready" /\ Runnable(t)
    /\ IF is_ready
       THEN /\ task' = [task EXCEPT ![t] =
                  [@ EXCEPT !.pc = "unary", !.sent = task[t].payload]]
            /\ UNCHANGED holder
       ELSE /\ task' = [task EXCEPT ![t] = AttemptFailed(@, E_NOTREADY)]
            /\ holder' = 0
    /\ UNCHANGED <<uuid, grpc_client, searcher, s_holder, executor>>

\* client.unary(request, path, codec).await
UnaryDone(t, reply) ==
    /\ task[t].pc = "unary" /\ Runnable(t)
    /\ task' = [task EXCEPT ![t] =
          IF reply.some THEN Finish([@ EXCEPT !.reply = reply], from_str(reply.v))
          ELSE AttemptFailed(@, E_SENDFAIL)]
    /\ holder' = 0
    /\ UNCHANGED <<uuid, grpc_client, searcher, s_holder, executor>>

\* tokio::time::sleep(current_delay).await has elapsed, `late` ms after the
\* deadline; current_delay *= 2; the for loop takes the next retry and locks
\* again, or falls through.
SleepDone(t, relock, late) ==
    /\ task[t].pc = "sleep" /\ Runnable(t)
    /\ LET woke == [task[t] EXCEPT !.waits = Append(@, task[t].current_delay),
                                   !.elapsed = @ + task[t].current_delay + late,
                                   !.current_delay = NextDelay(@),
                                   !.retry = @ + 1]
           rec == IF woke.retry < MAX_RETRIES THEN LockAttempt(t, woke, relock)
                  ELSE Finish(woke, Err(E_UNEXPECTED))
       IN /\ task' = [task EXCEPT ![t] = rec]
          /\ holder' = HolderAfter(t, rec)
    /\ UNCHANGED <<uuid, grpc_client, searcher, s_holder, executor>>

(***************************************************************************)
(* Connection establishment.  An address is described by what the code     *)
(* looks at: whether it contains "https" and whether it is a URI.          *)
(***************************************************************************)
Addrs == [https : BOOLEAN, wellformed : BOOLEAN]

\* lib.rs GrpcClient::connect: both failures leave through `?`.
LibConnect(addr, reachable) ==
    IF ~addr.wellformed THEN Err(E_INVALIDURI)
    ELSE IF ~reachable THEN Err(E_TRANSPORT)
    ELSE Ok("client")

\* JitoJsonRpcSDK::enable_grpc
EnableGrpc(t, addr, reachable) ==
    /\ CanStart(t) /\ ExclBorrowOk(t)
    /\ LET r == LibConnect(addr, reachable)
       IN /\ task' = [task EXCEPT ![t] =
                Finish(Begin([op |-> "enable_grpc", addr |-> addr]),
                       IF r.kind = "ok" THEN Ok("unit") ELSE r)]
          /\ grpc_client' = IF r.kind = "ok" THEN Some(r.v) ELSE grpc_client
    /\ UNCHANGED <<uuid, holder, searcher, s_holder, executor>>

\* grpc.rs GrpcClient::connect: from_shared(..).expect("invalid url"),
\* tls_config(..).expect("tls config error") on the https branch, then
\* connect().await.map_err(..)?
SearcherConnectResult(addr, tls_ok, reachable) ==
    IF ~addr.wellformed THEN Panic(P_INVALIDURL)
    ELSE IF addr.https /\ ~tls_ok THEN Panic(P_TLSCONFIG)
    ELSE IF ~reachable THEN Err(E_CONNECT)
    ELSE Ok("client")

SearcherConnect(t, addr, tls_ok, reachable) ==
    /\ CanStart(t)
    /\ s_holder = 0
    /\ \A u \in Callers : task[u].pc \notin {"s_wait", "s_call"}
    /\ LET r == SearcherConnectResult(addr, tls_ok, reachable)
       IN /\ task' = [task EXCEPT ![t] =
                Finish(Begin([op |-> "searcher_connect", addr |-> addr]), r)]
          /\ searcher' = IF r.kind = "ok" THEN Some(r.v) ELSE searcher
    /\ UNCHANGED <<uuid, grpc_client, holder, s_holder, executor>>

(***************************************************************************)
(* grpc.rs GrpcClient: calls through Arc<tokio::sync::Mutex<client>>.      *)
(* lock().await suspends the task, not its thread.                         *)
(***************************************************************************)
SearcherCall(t, op) ==
    /\ CanStart(t)
    /\ searcher.some
    /\ IF s_holder = 0
       THEN /\ task' = [task EXCEPT ![t] =
                  [Begin([op |-> op]) EXCEPT !.pc = "s_call", !.locks = 1, !.attempts = 1]]
            /\ s_holder' = t
       ELSE /\ task' = [task EXCEPT ![t] = [Begin([op |-> op]) EXCEPT !.pc = "s_wait"]]
            /\ UNCHANGED s_holder
    /\ UNCHANGED <<uuid, grpc_client, holder, searcher, executor>>

\* GrpcClient::get_tip_accounts up to client.get_tip_accounts(request).await
SearcherGetTipAccounts(t) == SearcherCall(t, "searcher_get_tip_accounts")

\* GrpcClient::send_bundle up to ..send_bundle(request).await
SearcherSendBundle(t) == SearcherCall(t, "searcher_send_bundle")

\* self.client.lock().await resolves
SearcherAcquire(t) ==
    /\ task[t].pc = "s_wait" /\ Runnable(t)
    /\ s_holder = 0
    /\ task' = [task EXCEPT ![t] = [@ EXCEPT !.pc = "s_call", !.locks = 1, !.attempts = 1]]
    /\ s_holder' = t
    /\ UNCHANGED <<uuid, grpc_client, holder, searcher, executor>>

\* the remote call resolves; the guard is dropped on return
SearcherDone(t, success) ==
    /\ task[t].pc = "s_call" /\ Runnable(t)
    /\ task' = [task EXCEPT ![t] =
          IF success THEN Finish(@, Ok("response"))
          ELSE Finish(@, Err(IF @.call.op = "searcher_get_tip_accounts"
                             THEN E_TIPS ELSE E_BUNDLE))]
    /\ s_holder' = 0
    /\ UNCHANGED <<uuid, grpc_client, holder, searcher, executor>>

(***************************************************************************)
(* Inputs.                                                                 *)
(***************************************************************************)
Uuids == {None, Some("u1")}
ArgUuids == {None, Some("u9")}

\* transaction lists of every length up to MaxTxCount, and two that differ
\* from the others only in order or content
TxLists ==
    {JArr([i \in 1..n |-> JStr(IF i % 2 = 1 THEN "txA" ELSE "txB")]) : n \in 0..MaxTxCount}
    \cup {JArr(<<JStr("txB"), JStr("txA")>>), JArr(<<JStr("txA"), JStr("txA")>>)}

OptionValues == {JObj(<<>>), JObj(<< <<"encoding", JStr("base64")>> >>)}

BundleParams ==
    {None, Some(JNull), Some(JStr("txA")), Some(JObj(<<>>)), Some(JArr(<<>>)),
     Some(JArr(<<JStr("txA")>>)), Some(JArr(<<JObj(<<>>), JArr(<<JStr("txA")>>)>>))}
    \cup {Some(JArr(<<txs>>)) : txs \in TxLists}
    \cup {Some(JArr(<<txs, o>>)) : txs \in TxLists, o \in OptionValues}
    \cup {Some(JArr(<<txs, o, JNull>>)) : txs \in TxLists, o \in OptionValues}

BundleIds == {<<>>, <<"id1">>, <<"id1", "id2">>}

\* how late a sleep may wake, in ms
Lateness == {0, 3}

HttpBodies == {None, Some(JObj(<< <<"result", JStr("ok")>> >>))}

(***************************************************************************)
(* One caller using one SDK, call after call.                              *)
(***************************************************************************)
\* The caller has its result and is free to call again.
Return(t) ==
    /\ task[t].pc = "done"
    /\ task' = [task EXCEPT ![t] = IdleTask]
    /\ UNCHANGED <<uuid, grpc_client, holder, searcher, s_holder, executor>>

SoloCallers == {1}

Init ==
    /\ uuid \in Uuids
    /\ grpc_client \in {None, Some("client")}
    /\ holder = 0
    /\ searcher = None
    /\ s_holder = 0
    /\ task = [t \in SoloCallers |-> IdleTask]
    /\ executor = "current_thread"

Next ==
    \E t \in SoloCallers :
        \/ GetTipAccounts(t)
        \/ \E ids \in BundleIds : GetBundleStatuses(t, ids)
        \/ \E p \in BundleParams, a \in ArgUuids : SendBundle(t, p, a)
        \/ \E d \in BOOLEAN : HttpSent(t, d)
        \/ \E b \in HttpBodies : HttpBody(t, b)
        \/ GetTipAccountsWithGrpc(t)
        \/ \E ids \in BundleIds : GetBundleStatusesWithGrpc(t, ids)
        \/ \E r \in Replies : DispatchDone(t, r)
        \/ \E p \in BundleParams, a \in ArgUuids, k \in RelockOutcomes :
              SendBundleWithGrpc(t, p, a, k)
        \/ \E ok \in BOOLEAN : ReadyDone(t, ok)
        \/ \E r \in Replies : UnaryDone(t, r)
        \/ \E k \in RelockOutcomes, late \in Lateness : SleepDone(t, k, late)
        \/ \E addr \in Addrs, up \in BOOLEAN : EnableGrpc(t, addr, up)
        \/ \E addr \in Addrs, tls \in BOOLEAN, up \in BOOLEAN :
              SearcherConnect(t, addr, tls, up)
        \/ Return(t)

Spec == Init /\ [][Next]_vars

(***************************************************************************)
(* Several callers sharing one SDK with gRPC enabled and one searcher      *)
(* client, one call each.                                                  *)
(***************************************************************************)
SharedBundle == Some(JArr(<<JArr(<<JStr("txA")>>), JObj(<<>>)>>))

\* the peer's answers offered to concurrent callers
SharedReplies == {None, Some("[]")}

SharedCallers == 1..NumTasks

InitShared ==
    /\ uuid = Some("u1")
    /\ grpc_client = Some("client")
    /\ holder = 0
    /\ searcher = Some("client")
    /\ s_holder = 0
    /\ task = [t \in SharedCallers |-> IdleTask]
    /\ executor \in Executors

Step(t) ==
    \/ Acquire(t)
    \/ \E ok \in BOOLEAN : ReadyDone(t, ok)
    \/ \E r \in SharedReplies : UnaryDone(t, r)
    \/ \E k \in RelockOutcomes : SleepDone(t, k, 0)
    \/ \E r \in SharedReplies : DispatchDone(t, r)
    \/ SearcherAcquire(t)
    \/ \E ok \in BOOLEAN : SearcherDone(t, ok)

NextShared ==
    \E t \in SharedCallers :
        \/ \E k \in RelockOutcomes : SendBundleWithGrpc(t, SharedBundle, None, k)
        \/ GetTipAccountsWithGrpc(t)
        \/ SearcherGetTipAccounts(t)
        \/ SearcherSendBundle(t)
        \/ Step(t)

SpecShared == InitShared /\ [][NextShared]_vars

\* Every remote step that is pending completes, and a released lock is taken.
FairShared == SpecShared /\ \A t \in SharedCallers : WF_vars(Step(t))

(***************************************************************************)
(* Properties.                                                             *)
(***************************************************************************)
InCall(r) == r.pc \notin {"idle"}
Returned(r) == r.pc = "done"
IsBundleOp(r) == r.call.op \in {"send_bundle", "send_bundle_with_grpc"}
ViaWrapper(r) == r.call.op = "send_bundle_with_grpc" /\ r.payload.some

RECURSIVE SumSeq(_)
SumSeq(s) == IF s = <<>> THEN 0 ELSE s[1] + SumSeq(Tail(s))

\* C1: the retrying send_bundle makes at most 5 attempts; a call that
\* returns the outcome of a successful remote call (the parsed value or the
\* parse error) has made exactly one attempt more than it had failures, at
\* most 4 of them; a call that returns a terminal error has made exactly 5
\* attempts, all failed; the fall-through error is never returned.
RetryStopsAtFirstSuccess ==
    \A t \in Callers :
        LET r == task[t] IN
        ViaWrapper(r) =>
            /\ r.attempts <= 5
            /\ r.fails <= r.attempts
            /\ (Returned(r) /\ r.result.kind # "panic") =>
                  /\ r.result # Err(E_UNEXPECTED)
                  /\ \/ /\ r.reply.some
                        /\ r.result = from_str(r.reply.v)
                        /\ r.fails <= 4
                        /\ r.attempts = r.fails + 1
                     \/ /\ ~r.reply.some
                        /\ r.result \in {Err(E_NOTREADY), Err(E_SENDFAIL)}
                        /\ r.attempts = 5
                        /\ r.fails = 5

\* a call that failed four times and succeeded on the fifth attempt
RetryFifthAttemptSucceeds ==
    \E t \in Callers :
        /\ ViaWrapper(task[t]) /\ Returned(task[t])
        /\ task[t].result.kind = "ok" /\ task[t].fails = 4 /\ task[t].attempts = 5

\* C10: the i-th backoff wait is 100 * 2^(i-1) ms, there are at most 4 of
\* them, and a call that returns the outcome of a successful remote call
\* after k failures has waited k times, at least 100 * (2^k - 1) ms in all.
BackoffDoubles ==
    \A t \in Callers :
        LET r == task[t] IN
        ViaWrapper(r) =>
            /\ Len(r.waits) <= 4
            /\ \A i \in 1..Len(r.waits) : r.waits[i] = 100 * 2^(i - 1)
            /\ r.elapsed >= SumSeq(r.waits)
            /\ (Returned(r) /\ r.reply.some) =>
                  /\ Len(r.waits) = r.fails
                  /\ r.elapsed >= 100 * (2^(r.fails) - 1)

\* a call that succeeded after three failures, its sleeps having woken late
BackoffThreeWaits ==
    \E t \in Callers :
        /\ ViaWrapper(task[t]) /\ Returned(task[t])
        /\ task[t].result.kind = "ok" /\ task[t].fails = 3
        /\ task[t].waits = <<100, 200, 400>> /\ task[t].elapsed > 700

(***************************************************************************)
(* Bundle parameters, as the specification describes them.                 *)
(***************************************************************************)
ValidationErrors == {E_EMPTY, E_TOOMANY, E_FIRST, E_FORMAT}
PreconditionErrors == ValidationErrors \cup {E_NOGRPC}

\* the outer array of a parameter, if it has one with a first element
HasFirst(p) == p.some /\ p.v.t = "arr" /\ Len(p.v.a) >= 1
HasTxList(p) == HasFirst(p) /\ p.v.a[1].t = "arr"
TxCount(p) == Len(p.v.a[1].a)

\* the validator was reached: the call is a bundle submission that did not
\* stop at the gRPC-enabled check
Validated(r) == InCall(r) /\ IsBundleOp(r) /\ r.result # Err(E_NOGRPC)

\* the validator rejected: the call returned one of its errors
Rejected(r) == Returned(r) /\ r.result.kind = "err" /\ r.result.msg \in ValidationErrors

\* C2: on both paths a parameter whose first element is a list of 1 to 5
\* transactions is accepted; a list of 0 is rejected with the "at least one"
\* error, a list of more than 5 with the "at most 5" error, a first element
\* that is no list and a parameter with no first element each with an error
\* of its own; the four errors are pairwise different.
ValidatorRule ==
    /\ Cardinality(ValidationErrors) = 4
    /\ \A t \in Callers :
        LET r == task[t]
            p == r.call.params
        IN Validated(r) =>
            IF ~HasFirst(p) THEN Rejected(r) /\ r.result.msg = E_FORMAT
            ELSE IF ~HasTxList(p) THEN Rejected(r) /\ r.result.msg = E_FIRST
            ELSE IF TxCount(p) = 0 THEN Rejected(r) /\ r.result.msg = E_EMPTY
            ELSE IF TxCount(p) > 5 THEN Rejected(r) /\ r.result.msg = E_TOOMANY
            ELSE ~Rejected(r)

\* a gRPC submission of exactly 5 transactions passed the validator
ValidatorAcceptsFive ==
    \E t \in Callers :
        /\ task[t].call.op = "send_bundle_with_grpc" /\ task[t].pc = "ready"
        /\ HasTxList(task[t].call.params) /\ TxCount(task[t].call.params) = 5

\* C3: a parameter whose outer array has a length other than 2 is rejected
\* by the validator, whatever its first element.
OuterLengthMustBeTwo ==
    \A t \in Callers :
        LET r == task[t]
            p == r.call.params
        IN (Validated(r) /\ p.some /\ p.v.t = "arr" /\ Len(p.v.a) # 2) => Rejected(r)

\* C4: a call that returned a precondition error issued no HTTP request,
\* attempted no ready-check and no gRPC call, and never took the client lock.
PreconditionBeforeNetwork ==
    \A t \in Callers :
        LET r == task[t] IN
        (/\ Returned(r)
         /\ r.call.op \in {"send_bundle", "send_bundle_with_grpc",
                           "get_tip_accounts_with_grpc", "get_bundle_statuses_with_grpc"}
         /\ r.result.kind = "err" /\ r.result.msg \in PreconditionErrors)
        => (~r.sent.some /\ r.attempts = 0 /\ r.locks = 0)

\* get_bundle_statuses_with_grpc returned "gRPC not enabled"
PreconditionGrpcDisabled ==
    \E t \in Callers :
        /\ Returned(task[t]) /\ task[t].call.op = "get_bundle_statuses_with_grpc"
        /\ task[t].result = Err(E_NOGRPC)

\* the endpoint a request names
RequestEndpoint(req) ==
    IF req.proto = "http" THEN req.endpoint
    ELSE IF req.path = SEND_REQUEST_PATH THEN req.value.o[1][2].s
    ELSE req.path

\* C7: with an attribution id set at construction, every request issued
\* targets /bundles?uuid=<that id>.
AttributionOnEveryRequest ==
    \A t \in Callers :
        (uuid.some /\ task[t].sent.some)
        => RequestEndpoint(task[t].sent.v) = "/bundles?uuid=" \o uuid.v

\* what a request carries as the bundle
Carried(req) == IF req.proto = "http" THEN req.params ELSE req.value

\* C8: for an accepted parameter (transactions, options) the request handed
\* to the transport carries both elements unmodified, on both paths.
BundlePassedUnmodified ==
    \A t \in Callers :
        LET r == task[t]
            p == r.call.params
        IN (IsBundleOp(r) /\ r.sent.some /\ Len(p.v.a) = 2)
           => /\ Carried(r.sent.v).t = "arr"
              /\ Len(Carried(r.sent.v).a) = 2
              /\ Carried(r.sent.v).a[1] = p.v.a[1]
              /\ Carried(r.sent.v).a[2] = p.v.a[2]

\* C9: no operation ends in a panic.
NoOperationPanics ==
    \A t \in Callers : task[t].result.kind # "panic"

\* callers with a request in flight through the client of the SDK, and
\* through the searcher client
InFlight == {t \in Callers : task[t].pc \in {"ready", "unary", "dispatch"}}
SearcherInFlight == {t \in Callers : task[t].pc = "s_call"}

\* C5: at most one request is in flight through a client instance.
OneRequestInFlight ==
    /\ Cardinality(InFlight) <= 1
    /\ Cardinality(SearcherInFlight) <= 1

\* one caller has its unary call in flight while another is parked in lock()
ContendedClient ==
    \E t, u \in Callers : task[t].pc = "unary" /\ task[u].pc = "blocked"

\* C6: every call that has begun eventually returns.
EveryCallReturns ==
    \A t \in SharedCallers : (task[t].pc # "idle") ~> (task[t].pc = "done")

====
